---- MODULE Spec2Model ----
(***************************************************************************)
(* A model of the poker hand engine of src/main.rs: the card model, the    *)
(* Deck, Hand::new / sort_and_categorize, the derived ordering of Hand and *)
(* form_best_hand.                                                         *)
(***************************************************************************)
EXTENDS Integers, Sequences, FiniteSets, TLC

VARIABLES
    op,         \* the operation that ran last ("init" before any has)
    deck,       \* Deck.cards
    ret,        \* value returned by the last Deck::draw
    drawn,      \* history: the cards returned by draw since the last reset
    cards,      \* the [Card; 5] arguments handed to Hand::new so far
    hand,       \* the Hands those calls built, one per argument
    ord,        \* what Hand::cmp returned, in both directions
    community,  \* form_best_hand's first argument
    hole,       \* form_best_hand's second argument
    best        \* what form_best_hand returned

vars == <<op, deck, ret, drawn, cards, hand, ord, community, hole, best>>

----------------------------------------------------------------------------
(* enum CardSuit, by discriminant *)
Spades == 0
Hearts == 1
Clubs == 2
Diamonds == 3
CardSuit == {Spades, Hearts, Clubs, Diamonds}

(* enum CardRank, by discriminant (the value of `rank as i8`) *)
Two == 0
Three == 1
Four == 2
Five == 3
Six == 4
Seven == 5
Eight == 6
Nine == 7
Ten == 8
Jack == 9
Queen == 10
King == 11
Ace == 12
CardRank == Two..Ace

(* struct Card *)
Card == [suit : CardSuit, rank : CardRank]

mk(s, r) == [suit |-> s, rank |-> r]

(* Option<T>, and the unit value () *)
None == [kind |-> "None"]
Some(x) == [kind |-> "Some", value |-> x]
Unit == [kind |-> "Unit"]

(* a faulty Ord for Card that lets the suit break ties of rank *)
Card_cmp_suit(a, b) ==
    IF a.rank < b.rank THEN "Less"
    ELSE IF a.rank > b.rank THEN "Greater"
    ELSE IF a.suit < b.suit THEN "Less"
    ELSE IF a.suit > b.suit THEN "Greater"
    ELSE "Equal"

(* impl Ord for Card: the rank alone decides *)
Card_cmp(a, b) ==
    IF a.rank < b.rank THEN "Less"
    ELSE IF a.rank > b.rank THEN "Greater"
    ELSE "Equal"

(* impl PartialEq for Card *)
Card_eq(a, b) == a.rank = b.rank

(* enum HandCategory, by discriminant (the derived Ord) *)
HighCard == 0
Pair == 1
TwoPair == 2
ThreeOfAKind == 3
Straight == 4
Flush == 5
FullHouse == 6
FourOfAKind == 7
StraightFlush == 8
RoyalFlush == 9
HandCategory == HighCard..RoyalFlush

----------------------------------------------------------------------------
(* slice::sort on cards: a stable sort under Card's Ord.  x is the element *)
(* that followed s in the input, so it stays behind its equals.            *)
(* a faulty insertion that looks at the first element only *)
sort_insert_front(s, x) ==
    IF s = <<>> THEN <<x>>
    ELSE IF Card_cmp(x, s[1]) = "Less" THEN <<x>> \o s ELSE Append(s, x)

RECURSIVE sort_insert(_, _)
sort_insert(s, x) ==
    IF s = <<>> THEN <<x>>
    ELSE IF Card_cmp(x, s[Len(s)]) = "Less"
         THEN Append(sort_insert(SubSeq(s, 1, Len(s) - 1), x), s[Len(s)])
         ELSE Append(s, x)

RECURSIVE sort(_)
sort(v) ==
    IF v = <<>> THEN <<>>
    ELSE sort_insert(sort(SubSeq(v, 1, Len(v) - 1)), v[Len(v)])

(* slice::reverse *)
reverse(v) == [i \in 1..Len(v) |-> v[Len(v) + 1 - i]]

(* a faulty rotation that shifts without wrapping around *)
rotate_left_shift(v, k) ==
    [i \in 1..Len(v) |-> v[IF i + k > Len(v) THEN Len(v) ELSE i + k]]

(* a rotation that was left out *)
rotate_left_none(v, k) == v

(* slice::rotate_left *)
rotate_left(v, k) == [i \in 1..Len(v) |-> v[((i - 1 + k) % Len(v)) + 1]]

(* Itertools::group_by(|card| card.rank): runs of consecutive equal keys *)
RECURSIVE group_by(_)
group_by(v) ==
    IF v = <<>> THEN <<>>
    ELSE LET rest == group_by(Tail(v))
         IN IF rest # <<>> /\ Head(rest)[1].rank = Head(v).rank
            THEN <<(<<Head(v)>> \o Head(rest))>> \o Tail(rest)
            ELSE <<(<<Head(v)>>)>> \o rest

(* Vec::sort_by_key(|k| k.len()): a stable sort of the groups by length *)
RECURSIVE key_insert(_, _)
key_insert(s, x) ==
    IF s = <<>> THEN <<x>>
    ELSE IF Len(x) < Len(s[Len(s)])
         THEN Append(key_insert(SubSeq(s, 1, Len(s) - 1), x), s[Len(s)])
         ELSE Append(s, x)

RECURSIVE sort_by_key(_)
sort_by_key(t) ==
    IF t = <<>> THEN <<>>
    ELSE key_insert(sort_by_key(SubSeq(t, 1, Len(t) - 1)), t[Len(t)])

(* Iterator::flatten *)
RECURSIVE flatten(_)
flatten(t) == IF t = <<>> THEN <<>> ELSE Head(t) \o flatten(Tail(t))

(* the closing match of sort_and_categorize on the group lengths *)
match_groups(t) ==
    IF Len(t[1]) = 4 THEN FourOfAKind
    ELSE IF Len(t[1]) = 3
         THEN (IF Len(t[2]) = 2 THEN FullHouse ELSE ThreeOfAKind)
    ELSE IF Len(t[1]) = 2
         THEN (IF Len(t[2]) = 2 THEN TwoPair ELSE Pair)
    ELSE HighCard

(* the straight test: the 4 highest cards against the lowest *)
straight_sub(c) == [i \in 1..4 |-> c[i].rank - c[5].rank]

(* the royal test inside the flush branch *)
is_royal(c) == \A i \in 1..5 : c[i].rank >= Ten

(* the flush test *)
is_flush(c) == \A i \in 1..5 : c[i].suit = c[1].suit

(* the grouping branch with its reverse() forgotten *)
grouped_unreversed(c) == sort_by_key(group_by(c))

(* the grouping branch: the groups, longest first *)
grouped(c) == reverse(sort_by_key(group_by(c)))

(* Hand::sort_and_categorize: the category and the cards as it leaves them *)
sort_and_categorize(c) ==
    LET sorted == reverse(sort(c))
        flush == is_flush(sorted)
        sub == straight_sub(sorted)
        wheel == sub = <<12, 3, 2, 1>>
        is_straight == sub = <<4, 3, 2, 1>> \/ wheel
        placed == IF wheel THEN rotate_left(sorted, 1) ELSE sorted
    IN  IF flush
        THEN [category |-> IF is_royal(placed) THEN RoyalFlush
                           ELSE IF is_straight THEN StraightFlush
                           ELSE Flush,
              cards |-> placed]
        ELSE IF is_straight
        THEN [category |-> Straight, cards |-> placed]
        ELSE LET t == grouped(placed)
             IN [category |-> match_groups(t), cards |-> flatten(t)]

(* Hand::new *)
Hand_new(c) == sort_and_categorize(c)

(* the derived Ord of [Card; 5]: lexicographic under Card's Ord *)
RECURSIVE cards_cmp(_, _)
cards_cmp(a, b) ==
    IF a = <<>> THEN "Equal"
    ELSE IF Card_cmp(Head(a), Head(b)) # "Equal" THEN Card_cmp(Head(a), Head(b))
    ELSE cards_cmp(Tail(a), Tail(b))

(* the derived Ord of Hand: category first, then the cards *)
Hand_cmp(a, b) ==
    IF a.category < b.category THEN "Less"
    ELSE IF a.category > b.category THEN "Greater"
    ELSE cards_cmp(a.cards, b.cards)

----------------------------------------------------------------------------
(* Deck::reset: the arrays it pushes from *)
all_ranks == <<Two, Three, Four, Five, Six, Seven, Eight, Nine, Ten, Jack,
               Queen, King, Ace>>

all_suits == <<Hearts, Spades, Clubs, Diamonds>>

(* Deck::new: an empty Vec *)
Deck_new == <<>>

(* Deck::reset: clear, then push every rank of every suit, suit by suit *)
Deck_reset(d) ==
    LET cleared == SubSeq(d, 1, 0)
    IN cleared \o [i \in 1..(Len(all_suits) * Len(all_ranks)) |->
                     mk(all_suits[((i - 1) \div Len(all_ranks)) + 1],
                        all_ranks[((i - 1) % Len(all_ranks)) + 1])]

(* Deck::shuffle: its body is empty *)
Deck_shuffle(d) == d

(* a faulty draw that returns the last card and leaves it in the deck *)
Deck_draw_peek(d) ==
    IF d = <<>> THEN [cards |-> d, ret |-> None]
    ELSE [cards |-> d, ret |-> Some(d[Len(d)])]

(* Deck::draw: Vec::pop, the vector it leaves and the value it returns *)
Deck_draw(d) ==
    IF d = <<>> THEN [cards |-> d, ret |-> None]
    ELSE [cards |-> SubSeq(d, 1, Len(d) - 1), ret |-> Some(d[Len(d)])]

(* The variables a specification does not use keep their initial values. *)
Idle ==
    /\ op = "init"
    /\ deck = Deck_new
    /\ ret = None
    /\ drawn = <<>>
    /\ cards = <<>>
    /\ hand = <<>>
    /\ ord = <<>>
    /\ community = <<>>
    /\ hole = <<>>
    /\ best = None

----------------------------------------------------------------------------
(* The Deck under any sequence of its operations. *)
InitDeck == Idle

DeckNew ==
    /\ deck' = Deck_new
    /\ drawn' = <<>>
    /\ op' = "new"
    /\ UNCHANGED <<ret, cards, hand, ord, community, hole, best>>

DeckReset ==
    /\ deck' = Deck_reset(deck)
    /\ drawn' = <<>>
    /\ op' = "reset"
    /\ UNCHANGED <<ret, cards, hand, ord, community, hole, best>>

DeckShuffle ==
    /\ deck' = Deck_shuffle(deck)
    /\ op' = "shuffle"
    /\ UNCHANGED <<ret, drawn, cards, hand, ord, community, hole, best>>

DeckDraw ==
    /\ deck' = Deck_draw(deck).cards
    /\ ret' = Deck_draw(deck).ret
    /\ drawn' = IF ret'.kind = "Some" THEN Append(drawn, ret'.value) ELSE drawn
    /\ op' = "draw"
    /\ UNCHANGED <<cards, hand, ord, community, hole, best>>

NextDeck == DeckNew \/ DeckReset \/ DeckShuffle \/ DeckDraw

SpecDeck == InitDeck /\ [][NextDeck]_vars

----------------------------------------------------------------------------
(* The arguments the specifications hand to Hand::new.  An argument is a   *)
(* run of five cards: it starts at a rank, each next card lies some ranks  *)
(* (its gap, at most MaxGap) above the one before, continuing at Two past  *)
(* Ace; the suits are all Spades (step 0) or cycle through the four suits  *)
(* from suit `step`; and the run is given rotated by up to MaxRotate       *)
(* places.                                                                 *)
MaxGap == 3
MaxStep == 2
MaxRotate == 2

RECURSIVE run_offset(_, _)
run_offset(g, i) == IF i = 1 THEN 0 ELSE g[i - 1] + run_offset(g, i - 1)

run_card(s, g, step, i) ==
    mk((step + (IF step = 0 THEN 0 ELSE i - 1)) % Cardinality(CardSuit),
       (s + run_offset(g, i)) % Len(all_ranks))

run(s, g, step, rot) ==
    [i \in 1..5 |-> run_card(s, g, step, ((i - 1 + rot) % 5) + 1)]

Runs(gaps, rots) ==
    {run(s, g, step, rot) :
        s \in CardRank, g \in [1..4 -> gaps], step \in 0..MaxStep, rot \in rots}

(* Hand::new called on an argument *)
HandNew(c) ==
    /\ cards' = Append(cards, c)
    /\ hand' = Append(hand, Hand_new(c))
    /\ op' = "Hand::new"
    /\ UNCHANGED <<deck, ret, drawn, ord, community, hole, best>>

(* One hand is built, then its stored cards are handed to Hand::new again. *)
InitHand == Idle

Categorize ==
    Len(hand) = 0 /\ \E c \in Runs(0..MaxGap, 0..MaxRotate) : HandNew(c)

Recategorize == Len(hand) = 1 /\ HandNew(hand[1].cards)

NextHand == Categorize \/ Recategorize

SpecHand == InitHand /\ [][NextHand]_vars

----------------------------------------------------------------------------
(* Two hands are built and compared.  Their arguments are the runs whose   *)
(* neighbours are of equal rank or one rank apart, given in run order.     *)
(* Compare takes the two hands in both orders, so of the two orders in     *)
(* which a pair of arguments can be built only one is: the second argument *)
(* never precedes the first in the order of InputCode.                     *)
Adjacent == {0, 1}

RECURSIVE InputCode(_)
InputCode(c) ==
    IF c = <<>> THEN 0
    ELSE (Head(c).suit * Len(all_ranks) + Head(c).rank)
             * ((Len(all_suits) * Len(all_ranks)) ^ (Len(c) - 1))
         + InputCode(Tail(c))

InitCmp == Idle

Build ==
    /\ Len(hand) < 2
    /\ \E c \in Runs(Adjacent, {0}) :
           /\ Len(hand) = 1 => InputCode(c) >= InputCode(cards[1])
           /\ HandNew(c)

(* Hand::cmp, called on the two hands in every pairing *)
Compare ==
    /\ Len(hand) = 2
    /\ op # "cmp"
    /\ ord' = [i \in 1..2 |-> [j \in 1..2 |-> Hand_cmp(hand[i], hand[j])]]
    /\ op' = "cmp"
    /\ UNCHANGED <<deck, ret, drawn, cards, hand, community, hole, best>>

NextCmp == Build \/ Compare

SpecCmp == InitCmp /\ [][NextCmp]_vars

----------------------------------------------------------------------------
(* form_best_hand: both loops have an empty body and the function has no   *)
(* return type, so it returns () whatever the cards are.                   *)
form_best_hand(com, hol) == Unit

(* form_best_hand is called once, on up to MaxCommunity community cards    *)
(* and two hole cards dealt from disjoint places of a fresh deck.          *)
MaxCommunity == 5

Fresh == Deck_reset(Deck_new)

InitBest == Idle

FormBestHand ==
    /\ op = "init"
    /\ \E n \in 0..MaxCommunity :
         \E i \in 1..(Len(Fresh) - n - 1) :
           \E j \in (i + n)..(Len(Fresh) - 1) :
               /\ community' = SubSeq(Fresh, i, i + n - 1)
               /\ hole' = SubSeq(Fresh, j, j + 1)
    /\ best' = form_best_hand(community', hole')
    /\ op' = "form_best_hand"
    /\ UNCHANGED <<deck, ret, drawn, cards, hand, ord>>

NextBest == FormBestHand

SpecBest == InitBest /\ [][NextBest]_vars

----------------------------------------------------------------------------
(* Poker's own vocabulary, stated on the five cards as given. *)
Ranks(c) == {c[i].rank : i \in 1..5}
Count(c, r) == Cardinality({i \in 1..5 : c[i].rank = r})
Copies(c, x) == Cardinality({i \in 1..5 : c[i] = x})
Distinct(c) == \A i, j \in 1..5 : i # j => c[i] # c[j]
OneSuit(c) == \A i, j \in 1..5 : c[i].suit = c[j].suit
IsWheel(c) == Ranks(c) = {Ace, Five, Four, Three, Two}
IsRun(c) == IsWheel(c) \/ \E b \in Two..Ten : Ranks(c) = b..(b + 4)
GroupsOf(c, n) == {r \in Ranks(c) : Count(c, r) = n}

Poker(c) ==
    IF OneSuit(c) /\ Ranks(c) = Ten..Ace THEN RoyalFlush
    ELSE IF OneSuit(c) /\ IsRun(c) THEN StraightFlush
    ELSE IF OneSuit(c) THEN Flush
    ELSE IF IsRun(c) THEN Straight
    ELSE IF GroupsOf(c, 4) # {} THEN FourOfAKind
    ELSE IF GroupsOf(c, 3) # {} /\ GroupsOf(c, 2) # {} THEN FullHouse
    ELSE IF GroupsOf(c, 3) # {} THEN ThreeOfAKind
    ELSE IF Cardinality(GroupsOf(c, 2)) = 2 THEN TwoPair
    ELSE IF Cardinality(GroupsOf(c, 2)) = 1 THEN Pair
    ELSE HighCard

Built == 1..Len(hand)

(* C1: for five pairwise distinct cards, in whatever order they are given, *)
(* Hand::new assigns the standard poker category.                          *)
CategoryIsStandard ==
    \A i \in Built : Distinct(cards[i]) => hand[i].category = Poker(cards[i])

(* C1, its case: a full house of distinct cards, given out of order. *)
FullHouseBuilt ==
    /\ Len(hand) = 1
    /\ Distinct(cards[1])
    /\ cards[1] # hand[1].cards
    /\ Poker(cards[1]) = FullHouse
    /\ hand[1].category = FullHouse

(* C2: five cards of one suit, distinct or not, are a RoyalFlush exactly   *)
(* when their ranks are Ten, Jack, Queen, King, Ace, a StraightFlush for   *)
(* any other run, and a Flush when they are no run.                        *)
OneSuitCategory ==
    \A i \in Built :
        OneSuit(cards[i]) =>
            /\ hand[i].category = RoyalFlush <=> Ranks(cards[i]) = Ten..Ace
            /\ IsRun(cards[i]) /\ Ranks(cards[i]) # Ten..Ace
                   => hand[i].category = StraightFlush
            /\ ~IsRun(cards[i]) => hand[i].category = Flush

(* Significance order: larger rank groups first, equal groups by rank down. *)
InSignificanceOrder(h) ==
    \A p \in 1..4 :
        \/ Count(h, h[p].rank) > Count(h, h[p + 1].rank)
        \/ /\ Count(h, h[p].rank) = Count(h, h[p + 1].rank)
           /\ h[p].rank >= h[p + 1].rank

(* C3: the cards stored for an argument that is neither flush nor straight *)
(* are in significance order: equal ranks together, the groups by          *)
(* descending size, groups of equal size by descending rank.               *)
StoredInSignificanceOrder ==
    \A i \in Built :
        ~OneSuit(cards[i]) /\ ~IsRun(cards[i])
            => InSignificanceOrder(hand[i].cards)

(* C7: handing the stored cards of a Hand to Hand::new again gives the     *)
(* same category and the same cards, each in its place, suit and rank.     *)
RecategorizeKeepsCards ==
    Len(hand) = 2 => hand[2] = hand[1]

(* C7, as amended: handing the stored cards to Hand::new again gives the   *)
(* same category, the same rank in every position and the same five cards; *)
(* cards of equal rank may change places among themselves.                 *)
RecategorizeKeepsRanks ==
    Len(hand) = 2 =>
        /\ hand[2].category = hand[1].category
        /\ \A p \in 1..5 : hand[2].cards[p].rank = hand[1].cards[p].rank
        /\ \A p \in 1..5 :
               Copies(hand[2].cards, hand[1].cards[p])
                   = Copies(hand[1].cards, hand[1].cards[p])

(* C7, its case: a second pass that moved cards of equal rank. *)
RecategorizedMoved ==
    /\ Len(hand) = 2
    /\ cards[2] = hand[1].cards
    /\ hand[2].cards # hand[1].cards

(* C9: the cards stored in a Hand are the five cards given, as a multiset  *)
(* of (suit, rank) pairs, whichever branch placed them.                    *)
StoredIsPermutation ==
    \A i \in Built :
        \A p \in 1..5 :
            /\ Copies(hand[i].cards, cards[i][p]) = Copies(cards[i], cards[i][p])
            /\ Copies(cards[i], hand[i].cards[p]) = Copies(hand[i].cards, hand[i].cards[p])

(* C9, its case: a wheel, whose Ace the rotation moved to the back. *)
WheelRotated ==
    /\ Len(hand) >= 1
    /\ IsWheel(cards[1])
    /\ hand[1].cards[5].rank = Ace
    /\ cards[1] # hand[1].cards

----------------------------------------------------------------------------
(* Five ranks read as one number, the first rank weighing most. *)
RECURSIVE RankNum(_)
RankNum(r) ==
    IF r = <<>> THEN 0
    ELSE Head(r) * (Len(all_ranks) ^ (Len(r) - 1)) + RankNum(Tail(r))

NumCmp(x, y) == IF x < y THEN "Less" ELSE IF x > y THEN "Greater" ELSE "Equal"

RanksOf(c) == [p \in 1..Len(c) |-> c[p].rank]

(* The ranks of five cards in significance order, read off the cards as    *)
(* given: the size of a card's rank group first, its rank second.          *)
Weight(c, i) == Count(c, c[i].rank) * Len(all_ranks) + c[i].rank

RECURSIVE SignificantRanks(_, _)
SignificantRanks(c, I) ==
    IF I = {} THEN <<>>
    ELSE LET m == CHOOSE i \in I : \A j \in I : Weight(c, i) >= Weight(c, j)
         IN <<c[m].rank>> \o SignificantRanks(c, I \ {m})

Compared == IF op = "cmp" THEN {1, 2} ELSE {}

(* C4: two hands of one category among HighCard, Pair, TwoPair and        *)
(* ThreeOfAKind are ordered by the ranks of their defining groups, the     *)
(* highest group first, and then by their kickers, the highest first.      *)
TieBreakBySignificance ==
    \A i, j \in Compared :
        /\ hand[i].category = hand[j].category
        /\ hand[i].category \in {HighCard, Pair, TwoPair, ThreeOfAKind}
        => ord[i][j] = NumCmp(RankNum(SignificantRanks(cards[i], 1..5)),
                              RankNum(SignificantRanks(cards[j], 1..5)))

MixedWheel(c) == IsWheel(c) /\ ~OneSuit(c)
MixedHigherStraight(c) == ~OneSuit(c) /\ \E b \in Two..Ten : Ranks(c) = b..(b + 4)

(* C5: an Ace-to-Five of mixed suits is a Straight stored as Five, Four,   *)
(* Three, Two, Ace, and it compares lower than every straight from the     *)
(* Six-high to the Ace-high one.                                           *)
WheelIsLowestStraight ==
    /\ \A i \in Built :
           MixedWheel(cards[i]) =>
               /\ hand[i].category = Straight
               /\ RanksOf(hand[i].cards) = <<Five, Four, Three, Two, Ace>>
    /\ \A i, j \in Compared :
           MixedWheel(cards[i]) /\ MixedHigherStraight(cards[j]) =>
               /\ ord[i][j] = "Less"
               /\ ord[j][i] = "Greater"

(* C5, its case: the wheel compared with the Ace-high straight. *)
WheelBelowAceHigh ==
    \E i, j \in Compared :
        /\ MixedWheel(cards[i])
        /\ ~OneSuit(cards[j])
        /\ Ranks(cards[j]) = Ten..Ace
        /\ ord[i][j] = "Less"

HandNum(h) ==
    h.category * (Len(all_ranks) ^ 5) + RankNum(RanksOf(h.cards))

(* C6: Hand's ordering is the lexicographic order of (category, rank of    *)
(* card 1, ..., rank of card 5), suits ignored: the higher category wins   *)
(* whatever the ranks, equal category and ranks compare equal whatever the *)
(* suits, and, being the order of one number per hand, the relation is     *)
(* reflexive, antisymmetric up to that equality and transitive.            *)
OrderIsLexicographic ==
    \A i, j \in Compared :
        /\ ord[i][j] = NumCmp(HandNum(hand[i]), HandNum(hand[j]))
        /\ hand[i].category > hand[j].category => ord[i][j] = "Greater"
        /\ ( /\ hand[i].category = hand[j].category
             /\ RanksOf(hand[i].cards) = RanksOf(hand[j].cards) )
           => ord[i][j] = "Equal"
        /\ ord[i][i] = "Equal"
        /\ ord[i][j] = "Less" <=> ord[j][i] = "Greater"
        /\ ord[i][j] = "Equal" <=> ord[j][i] = "Equal"

(* C6, its case: equal category and ranks, every suit different. *)
EqualAcrossSuits ==
    /\ op = "cmp"
    /\ hand[1].category = hand[2].category
    /\ RanksOf(hand[1].cards) = RanksOf(hand[2].cards)
    /\ \A p \in 1..5 : hand[1].cards[p].suit # hand[2].cards[p].suit
    /\ ord[1][2] = "Equal"

----------------------------------------------------------------------------
(* The cards of a pool at the places S, in pool order. *)
RECURSIVE Pick(_, _)
Pick(pool, S) ==
    IF S = {} THEN <<>>
    ELSE LET m == CHOOSE i \in S : \A j \in S : i <= j
         IN <<pool[m]>> \o Pick(pool, S \ {m})

FiveOf(pool) ==
    {Hand_new(Pick(pool, S)) : S \in {T \in SUBSET (1..Len(pool)) : Cardinality(T) = 5}}

(* C8: form_best_hand returns the greatest Hand among the 5-card subsets   *)
(* of community and hole cards together when they are at least 5, and None *)
(* when they are fewer.                                                    *)
BestHandIsMaximum ==
    op = "form_best_hand" =>
        IF Len(community) + Len(hole) >= 5
        THEN /\ best.kind = "Some"
             /\ best.value \in FiveOf(community \o hole)
             /\ \A g \in FiveOf(community \o hole) :
                    Hand_cmp(g, best.value) # "Greater"
        ELSE best.kind = "None"

----------------------------------------------------------------------------
NoRepeat(v) == \A i, j \in 1..Len(v) : i # j => v[i] # v[j]
CardsIn(v) == {v[i] : i \in 1..Len(v)}

DeckState ==
    /\ NoRepeat(deck)
    /\ NoRepeat(drawn)
    /\ op = "reset" => Len(deck) = 52 /\ CardsIn(deck) = Card

DeckStep ==
    /\ op' = "draw" =>
           /\ ret'.kind = "None" <=> deck = <<>>
           /\ deck # <<>> =>
                  /\ ret'.kind = "Some"
                  /\ ret'.value \in CardsIn(deck)
                  /\ Len(deck') = Len(deck) - 1
                  /\ CardsIn(deck') = CardsIn(deck) \ {ret'.value}
           /\ deck = <<>> => deck' = <<>>
    /\ op' = "shuffle" => CardsIn(deck') = CardsIn(deck) /\ Len(deck') = Len(deck)

(* C10: under any sequence of new, reset, shuffle and draw the deck never  *)
(* holds a card twice; right after reset it holds exactly the 52 cards;    *)
(* a draw that returns a card removes that card and no other, so no card   *)
(* is drawn twice between two resets; draw returns None exactly when the   *)
(* deck is empty; and shuffle leaves the cards of the deck as they were.   *)
DeckKeepsCards == []DeckState /\ [][DeckStep]_vars

(* C10, its case: all 52 cards drawn after a reset, and a 53rd draw. *)
DeckDrawnOut ==
    /\ op = "draw"
    /\ ret.kind = "None"
    /\ Len(drawn) = 52

====
